---- MODULE Spec2Model ----
(***************************************************************************)
(* Offline-first data layer of compu-caddy: the IndexedDB wrapper GolfDB   *)
(* (object stores, sync queue, conflict engine) and the useGolfData hook   *)
(* (data-layer operations, connectivity handling, sync pass).              *)
(***************************************************************************)
EXTENDS Integers, Sequences, FiniteSets, TLC

(* ---------------------------------------------------------------------- *)
(* Bounds                                                                 *)
(* ---------------------------------------------------------------------- *)
\* Date.now() is modelled by the clock  now \in 1..MaxTime
MaxTime == 2
\* ids supplied from outside (scorecard import, backup file, remote snapshot)
MaxId == 1
\* number of items the syncQueue store may hold in the model
MaxQueue == 2
\* cap on the retries counter of a queue item
MaxRetries == 2
\* distinct Math.random() values
MaxRand == 2
\* performSync invocations that may overlap
MaxPasses == 2
\* hole scores of one saved round
MaxHoles == 1
\* API calls and connectivity events in one behaviour
MaxCalls == 3
\* fields named by one merge rule set
MaxRules == 1

(* ---------------------------------------------------------------------- *)
(* Values                                                                 *)
(* ---------------------------------------------------------------------- *)
\* object stores holding domain entities (keyPath 'id')
DomainStores == {"courses", "rounds", "holeScores"}

\* an absent key: an object without an 'id' property
NoId == 0

\* values of the domain field carried by the model (par / totalScore / score)
ParVals == {1, 2}

\* insertion order of the properties of an object: id, roundId, par, lastModified,
\* synced ("fwd", the order in which the application writes them) or the reverse
KeyOrders == {"fwd", "rev"}

\* null, and also the object { ...null }: no property is present
Null == [id |-> NoId, roundId |-> NoId, par |-> 0, lastModified |-> 0, synced |-> "none",
         keyOrder |-> "fwd"]

IsNull(e) == e.id = NoId

\* entities a remote snapshot or an imported file may contain
ExternalIds == 1..MaxId

Strategies == {"use_local", "use_remote", "merge", "manual", "other"}

MergeRuleNames == {"use_remote", "use_local", "combine", "latest"}

\* fields a merge rule set may name in the model
MergeFields == {"id", "par"}

NoRules == [f \in {} |-> "use_local"]

NoConflict == [type |-> "none", local |-> Null, remote |-> Null]

(* ---------------------------------------------------------------------- *)
(* State                                                                  *)
(* ---------------------------------------------------------------------- *)
VARIABLES
  now,          \* Date.now()
  dbOpen,       \* useGolfData: db state is set (GolfDB.init resolved)
  isOnline,     \* useGolfData: isOnline state
  effOnline,    \* isOnline as captured by the performSync closure of the online handler
  stores,       \* GolfDB: the domain object stores, each a map id -> entity
  ui,           \* useGolfData: courses / rounds / holeScores React state
  conflicts,    \* GolfDB: the 'conflicts' object store (set of records, key id)
  syncQueue,    \* GolfDB: the 'syncQueue' object store (set of records, key id)
  syncStatus,   \* useGolfData: syncStatus state
  pass,         \* the performSync invocations in flight
  last,         \* the call that made the last step
  calls,        \* number of calls and events so far
  serverData,   \* the snapshot of a collection held by the server
  backup        \* the backup file exportData last produced, and the progress of its round trip

vars == <<now, dbOpen, isOnline, effOnline, stores, ui, conflicts, syncQueue,
          syncStatus, pass, last, calls, serverData, backup>>

(* ---------------------------------------------------------------------- *)
(* Store primitives                                                       *)
(* ---------------------------------------------------------------------- *)
EmptyStore == [k \in {} |-> Null]

\* a put that accepts an entity without id
PutOk_Any(e) == TRUE

\* IDBObjectStore.put with an in-line key: rejected when the key path yields no key
PutOk(e) == e.id # NoId

\* a put that keeps the record already stored under the key
Put_InsertOnly(store, e) ==
  [k \in (DOMAIN store) \cup {e.id} |-> IF k \in DOMAIN store THEN store[k] ELSE e]

Put(store, e) ==
  [k \in (DOMAIN store) \cup {e.id} |-> IF k = e.id THEN e ELSE store[k]]

\* an add that accepts a key already present
AddOk_Overwrites(store, e) == e.id # NoId

\* IDBObjectStore.add: rejected when the key path yields no key or the key is present
AddOk(store, e) == e.id # NoId /\ e.id \notin DOMAIN store

Delete(store, key) ==
  [k \in (DOMAIN store) \ {key} |-> store[k]]

Get(store, key) == IF key \in DOMAIN store THEN store[key] ELSE Null

GetAll(store) == {store[k] : k \in DOMAIN store}

(* ---------------------------------------------------------------------- *)
(* Conflict engine (GolfDB)                                               *)
(* ---------------------------------------------------------------------- *)
\* JSON.stringify of an entity: the present properties, in insertion order
Prop(name, present, value) == IF present THEN <<<<name, ToString(value)>>>> ELSE <<>>

Reverse(seq) == [i \in 1..Len(seq) |-> seq[Len(seq) + 1 - i]]

Serialize(e) ==
  LET props ==
        Prop("id", e.id # NoId, e.id) \o Prop("roundId", e.roundId # NoId, e.roundId)
          \o Prop("par", e.par # 0, e.par)
          \o Prop("lastModified", e.lastModified # 0, e.lastModified)
          \o Prop("synced", e.synced # "none", e.synced)
  IN IF e.keyOrder = "rev" THEN Reverse(props) ELSE props

\* classification by timestamps alone, without the comparison of the contents
ClassifyPair_TimestampsOnly(localItem, remoteItem) ==
  IF remoteItem.lastModified # 0 /\ localItem.lastModified # 0
  THEN IF remoteItem.lastModified > localItem.lastModified THEN "server_newer"
       ELSE IF remoteItem.lastModified < localItem.lastModified THEN "local_newer"
       ELSE "none"
  ELSE "content_conflict"

\* classification of one remote item against its local counterpart
ClassifyPair(localItem, remoteItem) ==
  IF remoteItem.lastModified # 0 /\ localItem.lastModified # 0
  THEN IF remoteItem.lastModified > localItem.lastModified THEN "server_newer"
       ELSE IF remoteItem.lastModified < localItem.lastModified THEN "local_newer"
       ELSE IF Serialize(remoteItem) # Serialize(localItem) THEN "content_conflict"
       ELSE "none"
  ELSE IF Serialize(remoteItem) # Serialize(localItem) THEN "content_conflict"
       ELSE "none"

\* detectConflicts(storeName, remoteData) on the content of the store
DetectConflicts(store, remoteData) ==
  LET fromRemote ==
        { IF r.id \in DOMAIN store
          THEN [type |-> ClassifyPair(store[r.id], r), local |-> store[r.id], remote |-> r]
          ELSE [type |-> "server_only", local |-> Null, remote |-> r] : r \in remoteData }
      localOnly ==
        { [type |-> "local_only", local |-> store[k], remote |-> Null] :
            k \in {j \in DOMAIN store : \A r \in remoteData : r.id # j} }
  IN {c \in fromRemote : c.type # "none"} \cup localOnly

\* the entity written by strategy use_local
UseLocalEntity(local, t) == [local EXCEPT !.lastModified = t, !.synced = "false"]

\* use_remote without the synced flag
UseRemoteEntity_Unflagged(remote) == remote

\* the entity written by strategy use_remote
UseRemoteEntity(remote) == [remote EXCEPT !.synced = "true"]

\* the entity written by strategy merge
MergeEntity(merged, t) == [merged EXCEPT !.lastModified = t, !.synced = "false"]

\* mergeData raises a TypeError when a rule reads a property of null
MergeThrows(local, remote, mergeRules) ==
  \E f \in DOMAIN mergeRules :
     \/ mergeRules[f] \in {"use_remote", "latest"} /\ IsNull(remote)
     \/ mergeRules[f] = "combine" /\ IsNull(local)

\* the fields whose value is a list when present; the entities of the stores carry none
ListFields == {"holes"}

\* a list-valued field: the list, or absent
ArrayOf(items) == [isList |-> TRUE, items |-> items]

NoArray == [isList |-> FALSE, items |-> << >>]

\* [...new Set(list)]: the first occurrence of every element, in order
RECURSIVE Dedup(_)
Dedup(list) ==
  IF list = << >> THEN << >>
  ELSE LET front == Dedup(SubSeq(list, 1, Len(list) - 1))
           x == list[Len(list)]
       IN IF \E i \in 1..Len(front) : front[i] = x THEN front ELSE Append(front, x)

\* mergeData: a copy of local, then per rule: use_remote and latest take the remote
\* value, combine takes the union when both values are lists, use_local changes nothing
MergeData(local, remote, mergeRules) ==
  [f \in DOMAIN local |->
     IF f \notin DOMAIN mergeRules THEN local[f]
     ELSE CASE mergeRules[f] \in {"use_remote", "latest"} -> remote[f]
            [] /\ mergeRules[f] = "combine"
               /\ f \in ListFields
               /\ local[f].isList /\ remote[f].isList ->
                 ArrayOf(Dedup(local[f].items \o remote[f].items))
            [] OTHER -> local[f]]

\* storeConflict: add under the key conflict-<Date.now()>; a rejected add is swallowed
StoreConflict(cf, storeName, conflict, t) ==
  IF \E c \in cf : c.id = t
  THEN cf
  ELSE cf \cup {[id |-> t, storeName |-> storeName, conflict |-> conflict, timestamp |-> t]}

\* the entity resolveConflict hands to put, by strategy
WrittenEntity(conflict, resolution, t) ==
  CASE resolution.strategy = "use_local" -> UseLocalEntity(conflict.local, t)
    [] resolution.strategy = "use_remote" -> UseRemoteEntity(conflict.remote)
    [] resolution.strategy = "merge" ->
         MergeEntity(MergeData(conflict.local, conflict.remote, resolution.mergeRules), t)
    [] OTHER -> Null

\* resolveConflict raises: mergeData threw, or put rejected the entity
ResolveThrows(conflict, resolution, t) ==
  /\ resolution.strategy \in {"use_local", "use_remote", "merge"}
  /\ \/ resolution.strategy = "merge"
        /\ MergeThrows(conflict.local, conflict.remote, resolution.mergeRules)
     \/ ~PutOk(WrittenEntity(conflict, resolution, t))

\* detectConflicts without the guard "if (localItem)" around the timestamp reads
DetectThrows_Unguarded(store, remoteData) ==
  \E r \in remoteData : r = Null \/ r.id \notin DOMAIN store

\* detectConflicts raises a TypeError when it reads a property of null: remoteItem.id on
\* a null element of remoteData; localItem is only read under "if (localItem)"
DetectThrows(store, remoteData) ==
  \E r \in remoteData : r = Null

\* the domain stores after resolveConflict
StoresAfterResolve(st, storeName, conflict, resolution, t) ==
  IF resolution.strategy \in {"use_local", "use_remote", "merge"}
       /\ ~ResolveThrows(conflict, resolution, t)
  THEN [st EXCEPT ![storeName] = Put(@, WrittenEntity(conflict, resolution, t))]
  ELSE st

\* the conflicts store after resolveConflict
ConflictsAfterResolve(cf, storeName, conflict, resolution, t) ==
  IF resolution.strategy = "manual" THEN StoreConflict(cf, storeName, conflict, t) ELSE cf

\* the syncQueue store after resolveConflict: no branch touches it
QueueAfterResolve(q, storeName, conflict, resolution, t) == q

\* resolveStoredConflict without the delete
ConflictsAfterDelete_Kept(cf, conflictId) == cf

\* resolveStoredConflict: the record is deleted once resolveConflict has returned
ConflictsAfterDelete(cf, conflictId) == {c \in cf : c.id # conflictId}

(* ---------------------------------------------------------------------- *)
(* Sync queue (GolfDB)                                                    *)
(* ---------------------------------------------------------------------- *)
\* Math.random() of the key sync-<Date.now()>-<Math.random()>
RandVals == 1..MaxRand

NoItem == [id |-> <<0, 0>>, storeName |-> "none", operation |-> "none", data |-> Null,
           timestamp |-> 0, retries |-> 0, status |-> "none", seq |-> 0]

\* order of the keys sync-<ts>-<rnd>; Date.now() has a fixed number of digits
KeyLeq(a, b) == a[1] < b[1] \/ (a[1] = b[1] /\ a[2] <= b[2])

\* addToSyncQueue: add a pending item under the key sync-<ts>-<rnd>; a rejected add
\* (the key is taken) is swallowed. seq is not a field of the item: it records the
\* position of the call among the enqueues that were stored
AddToSyncQueue(q, storeName, operation, data, t, r) ==
  IF \E i \in q : i.id = <<t, r>>
  THEN q
  ELSE q \cup {[id |-> <<t, r>>, storeName |-> storeName, operation |-> operation,
                data |-> data, timestamp |-> t, retries |-> 0, status |-> "pending",
                seq |-> Cardinality(q) + 1]}

RECURSIVE InKeyOrder(_)
InKeyOrder(S) ==
  IF S = {} THEN <<>>
  ELSE LET m == CHOOSE x \in S : \A y \in S : KeyLeq(x.id, y.id)
       IN <<m>> \o InKeyOrder(S \ {m})

\* getSyncQueue: getAll('syncQueue'), every record of the store in key order
GetSyncQueue(q) == InKeyOrder(q)

\* get('syncQueue', syncId)
GetItem(q, syncId) ==
  IF \E i \in q : i.id = syncId THEN CHOOSE i \in q : i.id = syncId ELSE NoItem

\* put('syncQueue', item)
PutItem(q, item) == {i \in q : i.id # item.id} \cup {item}

\* markSyncItemComplete: what is put back
CompletedItem(item) == [item EXCEPT !.status = "completed"]

\* retrySyncItem: what is put back
RetriedItem(item) == [item EXCEPT !.retries = @ + 1, !.status = "pending"]

(* ---------------------------------------------------------------------- *)
(* Inputs                                                                 *)
(* ---------------------------------------------------------------------- *)
\* entities of a remote snapshot handed to detectConflicts
RemoteEntities ==
  [id : ExternalIds, roundId : {NoId}, par : ParVals, lastModified : 0..MaxTime, synced : {"none"},
   keyOrder : {"fwd"}]

\* a remote snapshot: no entity, or one entity
RemoteSnapshots == {{}} \cup {{r} : r \in RemoteEntities}

\* ids of the entities handed to detectConflicts, locally stored or listed by the server
DetectIds == {1, 2}

\* entities of the local collection detectConflicts reads
DetectLocalEntities ==
  [id : DetectIds, roundId : {NoId}, par : ParVals, lastModified : 0..MaxTime, synced : {"none"},
   keyOrder : {"fwd"}]

\* entities of the remote snapshot, in either property order
DetectRemoteEntities ==
  [id : DetectIds, roundId : {NoId}, par : ParVals, lastModified : 0..MaxTime, synced : {"none"},
   keyOrder : KeyOrders]

\* entities handed to add / put by a caller; the id may be missing
ApiEntities ==
  [id : DetectIds \cup {NoId}, roundId : {NoId}, par : ParVals, lastModified : {0},
   synced : {"none"}, keyOrder : {"fwd"}]

\* the collections over a set of entities: at most one entity per id
Collections(E) ==
  UNION { {f \in [I -> E] : \A k \in I : f[k].id = k} : I \in SUBSET DetectIds }

\* rule sets naming at most MaxRules fields
RuleSets ==
  UNION {[fs -> MergeRuleNames] : fs \in {x \in SUBSET MergeFields : Cardinality(x) <= MaxRules}}

Resolutions ==
  [strategy : Strategies \ {"merge"}, mergeRules : {NoRules}]
    \cup [strategy : {"merge"}, mergeRules : RuleSets]

ConflictIds == 1..MaxTime

Procs == 1..MaxPasses

\* a performSync invocation: its position, the list it drained, the index and the stored
\* copy of the item in hand, and what this invocation saw so far: the ids whose push
\* succeeded (pushed) and the items, as stored, whose push failed (failed)
IdlePass == [pc |-> "idle", snap |-> <<>>, idx |-> 0, item |-> NoItem, pushed |-> {},
             failed |-> {}]

\* outcome of one loop body: processSyncItem and markSyncItemComplete resolve, or
\* processSyncItem raises, or processSyncItem resolves and markSyncItemComplete rejects
PushOutcomes == {"pushed", "pushFailed", "markRejected"}

\* a value read from a backup file under one of the keys courses, rounds, holeScores:
\* a list of records (isList), or something Array.isArray rejects
ListOf(S) == [isList |-> TRUE, items |-> S]

NotAList == [isList |-> FALSE, items |-> {}]

\* the text of a backup file: whether JSON.parse accepts it (wellFormed), and the values
\* of its three keys
BackupFile(cs, rs, hs) == [wellFormed |-> TRUE, courses |-> cs, rounds |-> rs, holeScores |-> hs]

EmptyFile == BackupFile(ListOf({}), ListOf({}), ListOf({}))

\* a text JSON.parse rejects
NotJson == [EmptyFile EXCEPT !.wellFormed = FALSE]

\* the file exportData last produced, with what the stores held at that moment (before),
\* the number of calls made until then (at), and how far the sequence exportData,
\* clearAllData, importData of that file has come without another call in between
NoBackup ==
  [phase |-> "none", file |-> EmptyFile, before |-> [s \in DomainStores |-> << >>], at |-> 0]

\* the arguments of a call of mergeData and what it returned
NoMerge == [local |-> Null, remote |-> Null, mergeRules |-> NoRules, merged |-> Null]

\* the call of the last step: its arguments, whether it raised, for add / put the
\* entity passed (data) and whether the call repeats the call before it (repeated),
\* for detectConflicts the list returned (detected)
Last(op, store, id, strategy, threw, conflict) ==
  [op |-> op, store |-> store, id |-> id, strategy |-> strategy, threw |-> threw,
   conflict |-> conflict, data |-> Null, detected |-> {}, repeated |-> FALSE,
   file |-> EmptyFile, merge |-> NoMerge]

\* a call of the API or an event, while the budget of the model lasts
Call == calls < MaxCalls /\ calls' = calls + 1

(* ---------------------------------------------------------------------- *)
(* Initial state: the hook is mounted, GolfDB.init has not resolved yet   *)
(* ---------------------------------------------------------------------- *)
Init ==
  /\ now = 1
  /\ dbOpen = FALSE
  /\ isOnline \in BOOLEAN
  /\ effOnline = isOnline
  /\ stores = [s \in DomainStores |-> EmptyStore]
  /\ ui = [s \in DomainStores |-> EmptyStore]
  /\ conflicts = {}
  /\ syncQueue = {}
  /\ syncStatus = "idle"
  /\ pass = [p \in Procs |-> IdlePass]
  /\ last = Last("init", "none", 0, "none", FALSE, NoConflict)
  /\ calls = 0
  /\ serverData = {}
  /\ backup = NoBackup

\* the clock advances
Tick ==
  /\ UNCHANGED calls
  /\ now < MaxTime
  /\ now' = now + 1
  /\ last' = Last("tick", "none", 0, "none", FALSE, NoConflict)
  /\ UNCHANGED <<backup, serverData, dbOpen, isOnline, effOnline, stores, ui, conflicts, syncQueue, syncStatus, pass>>

\* initDB on an installation with an API key (no sample data is added): setDb(database);
\* the [db] effect installs the online handler, whose performSync is the one of this render
InitDB ==
  /\ UNCHANGED calls
  /\ ~dbOpen
  /\ dbOpen' = TRUE
  /\ effOnline' = isOnline
  /\ last' = Last("initDB", "none", 0, "none", FALSE, NoConflict)
  /\ UNCHANGED <<backup, serverData, now, isOnline, stores, ui, conflicts, syncQueue, syncStatus, pass>>

(* ---------------------------------------------------------------------- *)
(* Conflict resolution                                                    *)
(* ---------------------------------------------------------------------- *)
\* GolfDB.resolveConflict on a conflict reported by detectConflicts
ResolveConflict ==
  /\ Call
  /\ dbOpen
  /\ \E s \in DomainStores, remoteData \in RemoteSnapshots, res \in Resolutions :
       \E c \in DetectConflicts(stores[s], remoteData) :
          /\ stores' = StoresAfterResolve(stores, s, c, res, now)
          /\ conflicts' = ConflictsAfterResolve(conflicts, s, c, res, now)
          /\ syncQueue' = QueueAfterResolve(syncQueue, s, c, res, now)
          /\ last' = Last("resolveConflict", s, 0, res.strategy,
                          ResolveThrows(c, res, now), c)
  /\ UNCHANGED <<backup, serverData, now, dbOpen, isOnline, effOnline, ui, syncStatus, pass>>

\* useGolfData.resolveConflict -> GolfDB.resolveStoredConflict; an error is logged
ResolveStoredConflict ==
  /\ Call
  /\ dbOpen
  /\ \E conflictId \in ConflictIds, res \in Resolutions :
       IF \E c \in conflicts : c.id = conflictId
       THEN LET rec == CHOOSE c \in conflicts : c.id = conflictId
                threw == ResolveThrows(rec.conflict, res, now)
            IN /\ stores' = StoresAfterResolve(stores, rec.storeName, rec.conflict, res, now)
               /\ conflicts' =
                    IF threw THEN conflicts
                    ELSE ConflictsAfterDelete(
                           ConflictsAfterResolve(conflicts, rec.storeName, rec.conflict, res, now),
                           conflictId)
               /\ syncQueue' = QueueAfterResolve(syncQueue, rec.storeName, rec.conflict, res, now)
               /\ last' = Last("resolveStoredConflict", rec.storeName, conflictId,
                               res.strategy, threw, rec.conflict)
       ELSE /\ last' = Last("resolveStoredConflict", "none", conflictId, res.strategy,
                            FALSE, NoConflict)
            /\ UNCHANGED <<stores, conflicts, syncQueue>>
  /\ UNCHANGED <<backup, serverData, now, dbOpen, isOnline, effOnline, ui, syncStatus, pass>>

\* a store holding a local collection and a snapshot on the server, before
\* detectConflicts is called on them
InitDetect ==
  /\ now = 1
  /\ dbOpen = TRUE
  /\ isOnline = TRUE
  /\ effOnline = TRUE
  /\ \E local \in Collections(DetectLocalEntities) :
       /\ stores = [s \in DomainStores |-> IF s = "courses" THEN local ELSE EmptyStore]
       /\ ui = stores
  /\ \E snapshot \in Collections(DetectRemoteEntities) :
       serverData = {snapshot[k] : k \in DOMAIN snapshot}
  /\ conflicts = {}
  /\ syncQueue = {}
  /\ syncStatus = "idle"
  /\ pass = [p \in Procs |-> IdlePass]
  /\ last = Last("init", "none", 0, "none", FALSE, NoConflict)
  /\ calls = 0
  /\ backup = NoBackup

\* the two versions handed to mergeData: the ids may differ, every field may differ,
\* the list-valued field may be absent or hold repeated elements
MergeIds == {1, 2}

MergeArrays ==
  {NoArray} \cup {ArrayOf(items) : items \in UNION {[1..n -> ParVals] : n \in 0..2}}

MergeLocals == [id : {1}, par : ParVals, lastModified : 1..MaxTime, holes : MergeArrays]

MergeRemotes == [id : MergeIds, par : ParVals, lastModified : 1..MaxTime, holes : MergeArrays]

MergeRuleSets ==
  UNION {[fs -> MergeRuleNames] :
           fs \in {x \in SUBSET {"id", "par", "lastModified", "holes"} : Cardinality(x) <= MaxRules}}

\* a local and a remote version and a set of rules, before mergeData is called on them
InitMerge ==
  /\ now = 1
  /\ dbOpen = TRUE
  /\ isOnline = TRUE
  /\ effOnline = TRUE
  /\ stores = [s \in DomainStores |-> EmptyStore]
  /\ ui = stores
  /\ serverData = {}
  /\ conflicts = {}
  /\ syncQueue = {}
  /\ syncStatus = "idle"
  /\ pass = [p \in Procs |-> IdlePass]
  /\ \E local \in MergeLocals, remote \in MergeRemotes, mergeRules \in MergeRuleSets :
       last = [Last("init", "none", 0, "none", FALSE, NoConflict)
                 EXCEPT !.merge = [local |-> local, remote |-> remote,
                                   mergeRules |-> mergeRules, merged |-> Null]]
  /\ calls = 0
  /\ backup = NoBackup

\* GolfDB.mergeData(local, remote, mergeRules)
MergeDataCall ==
  /\ last.op = "init"
  /\ last' = [last EXCEPT !.op = "mergeData",
                          !.merge.merged = MergeData(last.merge.local, last.merge.remote,
                                                     last.merge.mergeRules)]
  /\ UNCHANGED <<backup, serverData, now, dbOpen, isOnline, effOnline, stores, ui, conflicts, syncQueue,
                 syncStatus, pass, calls>>

\* GolfDB.detectConflicts(storeName, remoteData) on the snapshot of the server
DetectConflictsCall ==
  /\ dbOpen
  /\ \E s \in DomainStores :
       LET threw == DetectThrows(stores[s], serverData)
       IN last' = [Last("detectConflicts", s, 0, "none", threw, NoConflict)
                     EXCEPT !.detected = IF threw THEN {}
                                         ELSE DetectConflicts(stores[s], serverData)]
  /\ UNCHANGED <<backup, serverData, now, dbOpen, isOnline, effOnline, stores, ui, conflicts, syncQueue,
                 syncStatus, pass, calls>>

(* ---------------------------------------------------------------------- *)
(* Store operations called directly (GolfDB)                              *)
(* ---------------------------------------------------------------------- *)
\* GolfDB.add(storeName, data)
AddCall ==
  /\ Call
  /\ dbOpen
  /\ \E s \in DomainStores, e \in ApiEntities :
       /\ stores' = IF AddOk(stores[s], e) THEN [stores EXCEPT ![s] = Put(@, e)] ELSE stores
       /\ last' = [Last("add", s, e.id, "none", ~AddOk(stores[s], e), NoConflict)
                     EXCEPT !.data = e]
  /\ UNCHANGED <<backup, serverData, now, dbOpen, isOnline, effOnline, ui, conflicts, syncQueue,
                 syncStatus, pass>>

\* GolfDB.put(storeName, data)
PutCall ==
  /\ Call
  /\ dbOpen
  /\ \E s \in DomainStores, e \in ApiEntities :
       /\ stores' = IF PutOk(e) THEN [stores EXCEPT ![s] = Put(@, e)] ELSE stores
       /\ last' = [Last("put", s, e.id, "none", ~PutOk(e), NoConflict)
                     EXCEPT !.data = e,
                            !.repeated = /\ last.op = "put"
                                         /\ last.store = s
                                         /\ last.data = e]
  /\ UNCHANGED <<backup, serverData, now, dbOpen, isOnline, effOnline, ui, conflicts, syncQueue,
                 syncStatus, pass>>

\* GolfDB.delete(storeName, key)
DeleteCall ==
  /\ Call
  /\ dbOpen
  /\ \E s \in DomainStores, key \in DetectIds :
       /\ stores' = [stores EXCEPT ![s] = Delete(@, key)]
       /\ last' = Last("delete", s, key, "none", FALSE, NoConflict)
  /\ UNCHANGED <<backup, serverData, now, dbOpen, isOnline, effOnline, ui, conflicts, syncQueue,
                 syncStatus, pass>>

(* ---------------------------------------------------------------------- *)
(* Data-layer operations (useGolfData, ScorecardImport)                   *)
(* ---------------------------------------------------------------------- *)
NewEntity(id, roundId, par, lastModified) ==
  [id |-> id, roundId |-> roundId, par |-> par, lastModified |-> lastModified, synced |-> "none",
   keyOrder |-> "fwd"]

\* the key hole-<roundId>-<holeNumber>
HoleId(roundId, holeNumber) == roundId * (MaxHoles + 1) + holeNumber

\* courses and rounds produced by the scorecard wizard; the id may be missing
ScorecardEntities ==
  [id : ExternalIds \cup {NoId}, roundId : {NoId}, par : ParVals, lastModified : {0},
   synced : {"none"}, keyOrder : {"fwd"}]

\* records of a backup file that pass the validation of importData
FileEntities ==
  [id : ExternalIds, roundId : {NoId}, par : ParVals, lastModified : {0}, synced : {"none"},
   keyOrder : {"fwd"}]

FileHoles ==
  [id : ExternalIds, roundId : ExternalIds, par : ParVals, lastModified : {0}, synced : {"none"},
   keyOrder : {"fwd"}]

\* a list of the backup file: empty, or one record
FileLists(S) == {{}} \cup {{e} : e \in S}

AsStore(S) == [k \in {e.id : e \in S} |-> CHOOSE e \in S : e.id = k]

\* Math.random() values not yet used in a key of this millisecond
FreshRands(q, t) == {r \in RandVals : \A i \in q : i.id # <<t, r>>}

\* the hook's addToSyncQueue, called once per entry when the hook is offline
RECURSIVE EnqueueAll(_, _, _, _)
EnqueueAll(q, entries, t, rs) ==
  IF entries = <<>> THEN q
  ELSE EnqueueAll(AddToSyncQueue(q, entries[1].storeName, entries[1].operation,
                                 entries[1].data, t, rs[1]),
                  Tail(entries), t, Tail(rs))

Entry(storeName, operation, data) ==
  [storeName |-> storeName, operation |-> operation, data |-> data]

\* "if (!isOnline) await addToSyncQueue(...)" for the entries of one operation
EnqueueIfOffline(entries) ==
  IF isOnline THEN UNCHANGED syncQueue
  ELSE /\ Cardinality(syncQueue) + Len(entries) <= MaxQueue
       /\ \E rs \in [1..Len(entries) -> FreshRands(syncQueue, now)] :
            /\ \A i, j \in 1..Len(entries) : i # j => rs[i] # rs[j]
            /\ syncQueue' = EnqueueAll(syncQueue, entries, now, rs)

\* handleImportCourse
HandleImportCourse ==
  /\ Call
  /\ dbOpen
  /\ \E par \in ParVals :
       LET course == NewEntity(now, NoId, par, now)
       IN /\ stores' = [stores EXCEPT !["courses"] = Put(@, course)]
          /\ EnqueueIfOffline(<<Entry("courses", "put", course)>>)
          /\ ui' = [ui EXCEPT !["courses"] = Put(@, course)]
          /\ last' = Last("handleImportCourse", "courses", course.id, "none", FALSE, NoConflict)
  /\ UNCHANGED <<backup, serverData, now, dbOpen, isOnline, effOnline, conflicts, syncStatus, pass>>

\* importCourseFromScorecard
ImportCourseFromScorecard ==
  /\ Call
  /\ dbOpen
  /\ \E course \in ScorecardEntities :
       LET importedCourse == [course EXCEPT !.id = IF course.id = NoId THEN now ELSE course.id]
       IN /\ stores' = [stores EXCEPT !["courses"] = Put(@, importedCourse)]
          /\ EnqueueIfOffline(<<Entry("courses", "put", importedCourse)>>)
          /\ ui' = [ui EXCEPT !["courses"] = Put(@, importedCourse)]
          /\ last' = Last("importCourseFromScorecard", "courses", importedCourse.id, "none",
                          FALSE, NoConflict)
  /\ UNCHANGED <<backup, serverData, now, dbOpen, isOnline, effOnline, conflicts, syncStatus, pass>>

RECURSIVE PutAll(_, _)
PutAll(store, S) ==
  IF S = {} THEN store
  ELSE LET e == CHOOSE x \in S : TRUE IN PutAll(Put(store, e), S \ {e})

RECURSIVE DeleteAll(_, _)
DeleteAll(store, keys) ==
  IF keys = {} THEN store
  ELSE LET k == CHOOSE x \in keys : TRUE IN DeleteAll(Delete(store, k), keys \ {k})

\* setHomeCourse: every course of the React state is put back
SetHomeCourse ==
  /\ Call
  /\ dbOpen
  /\ DOMAIN ui["courses"] # {}
  /\ stores' = [stores EXCEPT !["courses"] = PutAll(@, GetAll(ui["courses"]))]
  /\ last' = Last("setHomeCourse", "courses", 0, "none", FALSE, NoConflict)
  /\ UNCHANGED <<backup, serverData, now, dbOpen, isOnline, effOnline, ui, conflicts, syncQueue, syncStatus, pass>>

\* saveRoundFromScorecard
SaveRoundFromScorecard ==
  /\ Call
  /\ dbOpen
  /\ \E round \in ScorecardEntities :
       LET importedRound == [round EXCEPT !.id = IF round.id = NoId THEN now ELSE round.id]
       IN /\ stores' = [stores EXCEPT !["rounds"] = Put(@, importedRound)]
          /\ EnqueueIfOffline(<<Entry("rounds", "put", importedRound)>>)
          /\ ui' = [ui EXCEPT !["rounds"] = stores'["rounds"]]
          /\ last' = Last("saveRoundFromScorecard", "rounds", importedRound.id, "none",
                          FALSE, NoConflict)
  /\ UNCHANGED <<backup, serverData, now, dbOpen, isOnline, effOnline, conflicts, syncStatus, pass>>

\* the hole scores saveRound derives from roundData.holeScores
HoleScoresOf(roundId, nHoles, par) ==
  [h \in 1..nHoles |-> NewEntity(HoleId(roundId, h), roundId, par, 0)]

\* saveRound
SaveRound ==
  /\ Call
  /\ dbOpen
  /\ \E par \in ParVals, nHoles \in 0..MaxHoles :
       LET round == NewEntity(now, NoId, par, now)
           holes == HoleScoresOf(now, nHoles, par)
       IN /\ stores' = [stores EXCEPT !["rounds"] = Put(@, round),
                                      !["holeScores"] = PutAll(@, {holes[h] : h \in 1..nHoles})]
          /\ EnqueueIfOffline(<<Entry("rounds", "put", round)>>
                                \o [h \in 1..nHoles |-> Entry("holeScores", "put", holes[h])])
          /\ ui' = [ui EXCEPT !["rounds"] = stores'["rounds"],
                              !["holeScores"] = stores'["holeScores"]]
          /\ last' = Last("saveRound", "rounds", round.id, "none", FALSE, NoConflict)
  /\ UNCHANGED <<backup, serverData, now, dbOpen, isOnline, effOnline, conflicts, syncStatus, pass>>

\* deleteRound: the round, and the hole scores the React state lists for it
DeleteRound ==
  /\ Call
  /\ dbOpen
  /\ \E roundId \in DOMAIN ui["rounds"] :
       LET roundHoles == {k \in DOMAIN ui["holeScores"] : ui["holeScores"][k].roundId = roundId}
       IN /\ stores' = [stores EXCEPT !["rounds"] = Delete(@, roundId),
                                      !["holeScores"] = DeleteAll(@, roundHoles)]
          /\ ui' = [ui EXCEPT !["rounds"] = Delete(@, roundId),
                              !["holeScores"] = DeleteAll(@, roundHoles)]
          /\ last' = Last("deleteRound", "rounds", roundId, "none", FALSE, NoConflict)
  /\ UNCHANGED <<backup, serverData, now, dbOpen, isOnline, effOnline, conflicts, syncQueue, syncStatus, pass>>

\* exportData: the React state, not the stores, is written to the file; JSON.stringify
\* and JSON.parse keep every property of the records of the model
ExportData ==
  /\ dbOpen
  /\ backup' = [phase |-> "exported",
                file |-> BackupFile(ListOf(GetAll(ui["courses"])), ListOf(GetAll(ui["rounds"])),
                                    ListOf(GetAll(ui["holeScores"]))),
                before |-> stores, at |-> calls]
  /\ last' = Last("exportData", "none", 0, "none", FALSE, NoConflict)
  /\ UNCHANGED <<serverData, now, dbOpen, isOnline, effOnline, stores, ui, conflicts, syncQueue,
                 syncStatus, pass, calls>>

\* ids of the records of the files handed to importData
FileIds == {1}

\* records a backup file can hold; a missing id, a missing roundId or a missing name /
\* totalScore / score is the value the model uses for an absent field, and a record
\* lacks at most one field
AnyFileEntities ==
  {e \in [id : FileIds \cup {NoId}, roundId : {NoId}, par : {0, 1}, lastModified : {0},
          synced : {"none"}, keyOrder : {"fwd"}] : e.id # NoId \/ e.par # 0}

AnyFileHoles ==
  {e \in [id : FileIds \cup {NoId}, roundId : FileIds \cup {NoId}, par : {0, 1},
          lastModified : {0}, synced : {"none"}, keyOrder : {"fwd"}] :
     Cardinality({f \in {"id", "roundId", "par"} : e[f] = 0}) <= 1}

AnyLists(S) == {NotAList} \cup {ListOf(x) : x \in FileLists(S)}

\* the files importData validates and writes without an error
ValidFiles ==
  {BackupFile(ListOf(cs), ListOf(rs), ListOf(hs)) :
     cs \in FileLists(FileEntities), rs \in FileLists(FileEntities), hs \in FileLists(FileHoles)}
  \ {EmptyFile}

\* every file: not JSON, a key that is not a list, records with fields missing
AnyFiles ==
  {NotJson} \cup {BackupFile(cs, rs, hs) :
                    cs \in AnyLists(AnyFileEntities), rs \in AnyLists(AnyFileEntities),
                    hs \in AnyLists(AnyFileHoles)}

\* the validation of importData skipping the records of the lists
ValidFile_ListsOnly(file) ==
  /\ file.wellFormed
  /\ file.courses.isList /\ file.rounds.isList /\ file.holeScores.isList

\* the validation of importData: JSON.parse, Array.isArray for the three keys, then the
\* required fields of every course, round and hole score
ValidFile(file) ==
  /\ file.wellFormed
  /\ file.courses.isList /\ file.rounds.isList /\ file.holeScores.isList
  /\ \A course \in file.courses.items : course.id # NoId /\ course.par # 0
  /\ \A round \in file.rounds.items : round.id # NoId /\ round.par # 0
  /\ \A hole \in file.holeScores.items : hole.id # NoId /\ hole.roundId # NoId /\ hole.par # 0

\* db.put of one record of the file; a record without id is rejected
PutOrKeep(store, e) == IF PutOk(e) THEN Put(store, e) ELSE store

RECURSIVE PutEach(_, _)
PutEach(store, S) ==
  IF S = {} THEN store
  ELSE LET e == CHOOSE x \in S : TRUE IN PutEach(PutOrKeep(store, e), S \ {e})

\* importData of one of the given files: the validation precedes the first put, and an
\* error is rethrown to the caller
ImportFrom(files) ==
  /\ Call
  /\ dbOpen
  /\ \E file \in files :
       LET ok == ValidFile(file)
       IN /\ stores' = IF ok THEN [stores EXCEPT !["courses"] = PutEach(@, file.courses.items),
                                                 !["rounds"] = PutEach(@, file.rounds.items),
                                                 !["holeScores"] = PutEach(@, file.holeScores.items)]
                       ELSE stores
          /\ ui' = IF ok THEN [ui EXCEPT !["courses"] = AsStore(file.courses.items),
                                         !["rounds"] = AsStore(file.rounds.items),
                                         !["holeScores"] = AsStore(file.holeScores.items)]
                   ELSE ui
          /\ backup' = [backup EXCEPT !.phase = IF /\ ok
                                                   /\ backup.phase = "cleared"
                                                   /\ backup.at + 1 = calls
                                                   /\ file = backup.file
                                                THEN "imported" ELSE "none"]
          /\ last' = [Last("importData", "none", 0, "none", ~ok, NoConflict) EXCEPT !.file = file]
  /\ UNCHANGED <<serverData, now, dbOpen, isOnline, effOnline, conflicts, syncQueue, syncStatus, pass>>

\* importData on a file that passes validation, or on the file exportData produced
ImportData == ImportFrom(ValidFiles \cup {backup.file})

\* importData on any file
ImportAnyFile == ImportFrom(AnyFiles)

\* clearAllData
ClearAllData ==
  /\ Call
  /\ dbOpen
  /\ stores' = [s \in DomainStores |-> EmptyStore]
  /\ ui' = [s \in DomainStores |-> EmptyStore]
  /\ backup' = [backup EXCEPT !.phase = IF backup.phase = "exported" /\ backup.at = calls
                                        THEN "cleared" ELSE "none"]
  /\ last' = Last("clearAllData", "none", 0, "none", FALSE, NoConflict)
  /\ UNCHANGED <<serverData, now, dbOpen, isOnline, effOnline, conflicts, syncQueue, syncStatus, pass>>

\* ScorecardImport.handleDataSave: the course, and a round with its hole scores when given
HandleDataSave ==
  /\ Call
  /\ dbOpen
  /\ \E course \in ScorecardEntities, withRound \in BOOLEAN, nHoles \in 0..MaxHoles, par \in ParVals :
       /\ withRound \/ nHoles = 0
       /\ PutOk(course)
       /\ LET roundWithId == NewEntity(now, NoId, par, 0)
              holes == HoleScoresOf(now, nHoles, par)
          IN stores' =
               IF withRound
               THEN [stores EXCEPT !["courses"] = Put(@, course),
                                   !["rounds"] = Put(@, roundWithId),
                                   !["holeScores"] = PutAll(@, {holes[h] : h \in 1..nHoles})]
               ELSE [stores EXCEPT !["courses"] = Put(@, course)]
       /\ last' = Last("handleDataSave", "courses", course.id, "none", FALSE, NoConflict)
  /\ UNCHANGED <<backup, serverData, now, dbOpen, isOnline, effOnline, ui, conflicts, syncQueue, syncStatus, pass>>

\* the hook's addToSyncQueue called by a component; Math.random() may return a value
\* it returned before
AddToSyncQueueCall ==
  /\ Call
  /\ dbOpen
  /\ Cardinality(syncQueue) < MaxQueue
  /\ \E s \in DomainStores, op \in {"add", "put", "delete"}, id \in ExternalIds,
        r \in RandVals :
       /\ syncQueue' = AddToSyncQueue(syncQueue, s, op, NewEntity(id, NoId, 1, 0), now, r)
       /\ last' = Last("addToSyncQueue", s, id, "none", FALSE, NoConflict)
  /\ UNCHANGED <<backup, serverData, now, dbOpen, isOnline, effOnline, stores, ui, conflicts, syncStatus, pass>>

(* ---------------------------------------------------------------------- *)
(* Connectivity and the sync pass (useGolfData)                           *)
(* ---------------------------------------------------------------------- *)
\* another device changes what the server holds for the rounds collection; nothing
\* in the application reads it
ServerUpdate ==
  /\ Call
  /\ \E snapshot \in RemoteSnapshots \ {serverData} : serverData' = snapshot
  /\ last' = Last("serverUpdate", "rounds", 0, "none", FALSE, NoConflict)
  /\ UNCHANGED <<backup, now, dbOpen, isOnline, effOnline, stores, ui, conflicts, syncQueue, syncStatus,
                 pass>>

\* performSync up to its first await: the guard, setSyncStatus('syncing'), getSyncQueue
StartSync(p, closureOnline) ==
  /\ dbOpen /\ closureOnline
  /\ pass[p].pc = "idle"
  /\ syncStatus' = "syncing"
  /\ pass' = [pass EXCEPT ![p] = [pc |-> "loop", snap |-> GetSyncQueue(syncQueue),
                                  idx |-> 1, item |-> NoItem, pushed |-> {}, failed |-> {}]]

\* handleOnline: setIsOnline(true), then performSync of the render that installed the handler
HandleOnline ==
  /\ Call
  /\ isOnline' = TRUE
  /\ IF dbOpen /\ effOnline
     THEN \E p \in Procs :
            /\ StartSync(p, effOnline)
            /\ last' = Last("handleOnline", "none", p, "none", FALSE, NoConflict)
     ELSE /\ last' = Last("handleOnline", "none", 0, "none", FALSE, NoConflict)
          /\ UNCHANGED <<syncStatus, pass>>
  /\ UNCHANGED <<backup, serverData, now, dbOpen, effOnline, stores, ui, conflicts, syncQueue>>

\* handleOffline
HandleOffline ==
  /\ Call
  /\ isOnline' = FALSE
  /\ last' = Last("handleOffline", "none", 0, "none", FALSE, NoConflict)
  /\ UNCHANGED <<backup, serverData, now, dbOpen, effOnline, stores, ui, conflicts, syncQueue, syncStatus, pass>>

\* performSync as returned by the hook, called by a component
PerformSyncCall ==
  /\ Call
  /\ \E p \in Procs :
       /\ StartSync(p, isOnline)
       /\ last' = Last("performSync", "none", p, "none", FALSE, NoConflict)
  /\ UNCHANGED <<backup, serverData, now, dbOpen, isOnline, effOnline, stores, ui, conflicts, syncQueue>>

\* the loop body up to the store read: processSyncItem, then the get of
\* markSyncItemComplete; when the push raises or markSyncItemComplete rejects, the
\* catch branch runs and retrySyncItem issues its get
Push(p) ==
  /\ UNCHANGED calls
  /\ pass[p].pc = "loop"
  /\ pass[p].idx <= Len(pass[p].snap)
  /\ LET stored == GetItem(syncQueue, pass[p].snap[pass[p].idx].id)
     IN \E outcome \in PushOutcomes :
          /\ outcome # "pushed" => stored.retries < MaxRetries
          /\ pass' = [pass EXCEPT
                        ![p].pc = IF outcome = "pushed" THEN "markPut" ELSE "retryPut",
                        ![p].item = stored,
                        ![p].pushed = IF outcome = "pushFailed" THEN @ ELSE @ \cup {stored.id},
                        ![p].failed = IF outcome = "pushFailed" THEN @ \cup {stored} ELSE @]
          /\ last' = Last("push", stored.storeName, p, "none", outcome # "pushed", NoConflict)
  /\ UNCHANGED <<backup, serverData, now, dbOpen, isOnline, effOnline, stores, ui, conflicts, syncQueue, syncStatus>>

\* markSyncItemComplete after its get: status = 'completed', put
MarkPut(p) ==
  /\ UNCHANGED calls
  /\ pass[p].pc = "markPut"
  /\ syncQueue' = IF pass[p].item # NoItem
                  THEN PutItem(syncQueue, CompletedItem(pass[p].item)) ELSE syncQueue
  /\ pass' = [pass EXCEPT ![p].pc = "loop", ![p].idx = @ + 1, ![p].item = NoItem]
  /\ last' = Last("markSyncItemComplete", pass[p].item.storeName, p, "none", FALSE, NoConflict)
  /\ UNCHANGED <<backup, serverData, now, dbOpen, isOnline, effOnline, stores, ui, conflicts, syncStatus>>

\* retrySyncItem after its get: retries += 1, status = 'pending', put
RetryPut(p) ==
  /\ UNCHANGED calls
  /\ pass[p].pc = "retryPut"
  /\ syncQueue' = IF pass[p].item # NoItem
                  THEN PutItem(syncQueue, RetriedItem(pass[p].item)) ELSE syncQueue
  /\ pass' = [pass EXCEPT ![p].pc = "loop", ![p].idx = @ + 1, ![p].item = NoItem]
  /\ last' = Last("retrySyncItem", pass[p].item.storeName, p, "none", FALSE, NoConflict)
  /\ UNCHANGED <<backup, serverData, now, dbOpen, isOnline, effOnline, stores, ui, conflicts, syncStatus>>

\* the put of retrySyncItem is rejected: the outer catch sets the status to error
RetryReject(p) ==
  /\ UNCHANGED calls
  /\ pass[p].pc = "retryPut"
  /\ syncStatus' = "error"
  /\ pass' = [pass EXCEPT ![p] = IdlePass]
  /\ last' = Last("syncError", "none", p, "none", TRUE, NoConflict)
  /\ UNCHANGED <<backup, serverData, now, dbOpen, isOnline, effOnline, stores, ui, conflicts, syncQueue>>

\* a pass whose last await never settles
FinishSync_Hangs(p) ==
  /\ UNCHANGED calls
  /\ pass[p].pc = "loop"
  /\ pass[p].idx > Len(pass[p].snap)
  /\ pass' = [pass EXCEPT ![p].pc = "waiting"]
  /\ last' = Last("syncWaits", "none", p, "none", FALSE, NoConflict)
  /\ UNCHANGED <<backup, serverData, now, dbOpen, isOnline, effOnline, stores, ui, conflicts, syncQueue,
                 syncStatus>>

\* after the loop: checkForConflicts only reads the stored conflicts into the
\* pendingConflicts display state; then setSyncStatus('idle')
FinishSync(p) ==
  /\ UNCHANGED calls
  /\ pass[p].pc = "loop"
  /\ pass[p].idx > Len(pass[p].snap)
  /\ syncStatus' = "idle"
  /\ pass' = [pass EXCEPT ![p] = IdlePass]
  /\ last' = Last("syncDone", "none", p, "none", FALSE, NoConflict)
  /\ UNCHANGED <<backup, serverData, now, dbOpen, isOnline, effOnline, stores, ui, conflicts, syncQueue>>

(* ---------------------------------------------------------------------- *)
(* Specifications                                                         *)
(* ---------------------------------------------------------------------- *)
SyncStep ==
  \E p \in Procs : Push(p) \/ MarkPut(p) \/ RetryPut(p) \/ RetryReject(p) \/ FinishSync(p)

Next ==
  \/ Tick
  \/ InitDB
  \/ DetectConflictsCall
  \/ MergeDataCall
  \/ AddCall
  \/ PutCall
  \/ DeleteCall
  \/ ResolveConflict
  \/ ResolveStoredConflict
  \/ HandleImportCourse
  \/ ImportCourseFromScorecard
  \/ SetHomeCourse
  \/ SaveRoundFromScorecard
  \/ SaveRound
  \/ DeleteRound
  \/ ImportData
  \/ ImportAnyFile
  \/ ExportData
  \/ ClearAllData
  \/ HandleDataSave
  \/ AddToSyncQueueCall
  \/ HandleOnline
  \/ HandleOffline
  \/ PerformSyncCall
  \/ ServerUpdate
  \/ SyncStep

Spec == Init /\ [][Next]_vars

\* the conflict engine, over courses imported online or offline
NextConflict ==
  \/ Tick
  \/ InitDB
  \/ HandleImportCourse
  \/ ImportCourseFromScorecard
  \/ ResolveConflict
  \/ ResolveStoredConflict

SpecConflict == Init /\ [][NextConflict]_vars

\* the sync queue and the sync pass
NextSync ==
  \/ Tick
  \/ InitDB
  \/ SaveRoundFromScorecard
  \/ AddToSyncQueueCall
  \/ HandleOnline
  \/ HandleOffline
  \/ PerformSyncCall
  \/ ServerUpdate
  \/ SyncStep

SpecSync == Init /\ [][NextSync]_vars

\* the data-layer operations, online and offline
\* the continuations of pass p
PassStep(p) == Push(p) \/ MarkPut(p) \/ RetryPut(p) \/ RetryReject(p) \/ FinishSync(p)

\* every request to the store and every push settles, and the event loop then runs the
\* continuation of the pass that awaits it
SpecSyncFair == Init /\ [][NextSync]_vars /\ \A p \in Procs : WF_vars(PassStep(p))

NextData ==
  \/ Tick
  \/ InitDB
  \/ HandleOffline
  \/ HandleImportCourse
  \/ ImportCourseFromScorecard
  \/ SetHomeCourse
  \/ SaveRoundFromScorecard
  \/ SaveRound
  \/ DeleteRound
  \/ ImportData
  \/ ClearAllData
  \/ HandleDataSave

SpecData == Init /\ [][NextData]_vars

\* detectConflicts applied to a local collection and a remote snapshot
\* exportData, clearAllData and importData after the operations that fill the stores
NextBackup ==
  \/ Tick
  \/ InitDB
  \/ HandleImportCourse
  \/ SaveRound
  \/ HandleDataSave
  \/ ExportData
  \/ ClearAllData
  \/ ImportData

SpecBackup == Init /\ [][NextBackup]_vars

\* importData on every kind of file
NextImport ==
  \/ InitDB
  \/ ImportAnyFile

SpecImport == Init /\ [][NextImport]_vars

NextMerge ==
  \/ MergeDataCall

SpecMerge == InitMerge /\ [][NextMerge]_vars

NextDetect ==
  \/ DetectConflictsCall

SpecDetect == InitDetect /\ [][NextDetect]_vars

\* the store operations add, put and delete
NextStore ==
  \/ InitDB
  \/ AddCall
  \/ PutCall
  \/ DeleteCall

SpecStore == Init /\ [][NextStore]_vars

(* ---------------------------------------------------------------------- *)
(* Properties                                                             *)
(* ---------------------------------------------------------------------- *)
ResolveOps == {"resolveConflict", "resolveStoredConflict"}

\* the step is a resolution of an existing conflict with the given strategy
ResolvedWith(strategy) ==
  /\ last'.op \in ResolveOps
  /\ last'.strategy = strategy
  /\ last'.conflict # NoConflict

\* the entity a conflict is about
EntityIdOf(conflict) ==
  IF IsNull(conflict.local) THEN conflict.remote.id ELSE conflict.local.id

\* C1: after a conflict is resolved with use_local through resolveStoredConflict,
\* syncQueue holds exactly one item more than before, and the new item is a
\* pending put that refers to the resolved entity.
C1_UseLocalEnqueuesPut ==
  [][ (ResolvedWith("use_local") /\ last'.op = "resolveStoredConflict" /\ ~last'.threw)
        => \E q \in syncQueue' :
              /\ q \notin syncQueue
              /\ syncQueue' = syncQueue \cup {q}
              /\ q.status = "pending"
              /\ q.operation = "put"
              /\ q.storeName = last'.store
              /\ q.data.id = last'.conflict.local.id ]_vars

\* C2: the sequence a sync pass consumes holds exactly the pending items of
\* syncQueue, none that is completed, in ascending order of timestamp.
C2_DrainIsPendingInOrder ==
  \A p \in Procs :
    (last.op \in {"performSync", "handleOnline"} /\ last.id = p)
      => LET snap == pass[p].snap
         IN /\ {snap[i] : i \in 1..Len(snap)} = {q \in syncQueue : q.status = "pending"}
            /\ \A i \in 1..Len(snap) : snap[i].status # "completed"
            /\ \A i, j \in 1..Len(snap) : i < j => snap[i].timestamp <= snap[j].timestamp

\* C3: at most one sync pass is in flight; a performSync made while another
\* pass is syncing is a no-op.
C3_SingleFlight ==
  Cardinality({p \in Procs : pass[p].pc # "idle"}) <= 1

DataOps ==
  {"handleImportCourse", "importCourseFromScorecard", "setHomeCourse", "saveRoundFromScorecard",
   "saveRound", "deleteRound", "importData", "clearAllData", "handleDataSave"}

ChangedKeys(before, after) ==
  {k \in (DOMAIN before) \cup (DOMAIN after) : Get(before, k) # Get(after, k)}

\* C4: every put or delete of a course, round or hole score made by a data-layer
\* operation while the hook is offline appends a pending syncQueue item for that
\* collection and entity.
C4_OfflineWritesAreQueued ==
  [][ (~isOnline /\ last'.op \in DataOps)
        => \A s \in DomainStores : \A k \in ChangedKeys(stores[s], stores'[s]) :
              \E q \in syncQueue' \ syncQueue :
                 q.status = "pending" /\ q.storeName = s /\ q.data.id = k ]_vars

\* C5: once an item is marked completed no later pass pushes it again and its
\* status never returns to pending.
C5_CompletedIsFinal ==
  [][ /\ \A q \in syncQueue :
           q.status = "completed" => GetItem(syncQueue', q.id).status = "completed"
      /\ \A p \in Procs :
           (pass[p].pc = "loop" /\ pass'[p].pc = "markPut")
             => pass'[p].item.status # "completed" ]_vars

\* C6: the conflicts collection holds at most one Conflict Record per
\* (collection, entity id).
C6_OneRecordPerEntity ==
  \A c1, c2 \in conflicts :
    (c1.storeName = c2.storeName /\ EntityIdOf(c1.conflict) = EntityIdOf(c2.conflict))
      => c1 = c2

\* C7: after a conflict whose remote version is present is resolved with
\* use_remote, the stored entity is the remote version with synced = true, and
\* no item was added to syncQueue.
C7_UseRemoteWritesRemote ==
  [][ (ResolvedWith("use_remote") /\ ~IsNull(last'.conflict.remote))
        => LET remote == last'.conflict.remote
               e == Get(stores'[last'.store], remote.id)
           IN /\ ~last'.threw
              /\ e.id = remote.id
              /\ e.roundId = remote.roundId
              /\ e.par = remote.par
              /\ e.lastModified = remote.lastModified
              /\ e.synced = "true"
              /\ syncQueue' = syncQueue ]_vars

\* C7 witness: a use_remote resolution replaced a local par that differed
C7_Witness ==
  /\ last.op \in ResolveOps
  /\ last.strategy = "use_remote"
  /\ ~IsNull(last.conflict.remote)
  /\ ~IsNull(last.conflict.local)
  /\ last.conflict.local.par # last.conflict.remote.par
  /\ Get(stores[last.store], last.conflict.remote.id).par = last.conflict.remote.par
  /\ Get(stores[last.store], last.conflict.remote.id).synced = "true"
  /\ syncQueue # {}

\* C8: resolving with manual changes no entity, and afterwards the conflicts
\* collection holds a record with the unresolved local/remote pair.
C8_ManualKeepsThePair ==
  [][ ResolvedWith("manual")
        => /\ stores' = stores
           /\ \E c \in conflicts' :
                c.storeName = last'.store /\ c.conflict = last'.conflict ]_vars

\* C9 as stated: for use_local, use_remote and merge, once resolveConflict(id,
\* resolution) has returned, the record with that id is gone.
C9_RecordGoneAfterReturn ==
  (last.op = "resolveStoredConflict" /\ last.strategy \in {"use_local", "use_remote", "merge"})
    => \A c \in conflicts : c.id # last.id

\* C9 amended: for use_local, use_remote and merge, once resolveConflict(id,
\* resolution) has returned and the resolution did not fail, the record with
\* that id is gone.
C9_RecordGoneAfterSuccess ==
  (/\ last.op = "resolveStoredConflict"
   /\ last.strategy \in {"use_local", "use_remote", "merge"}
   /\ ~last.threw)
    => \A c \in conflicts : c.id # last.id

\* C9 witness: a stored record was resolved with one of the three strategies
C9_Witness ==
  /\ last.op = "resolveStoredConflict"
  /\ last.strategy \in {"use_local", "use_remote", "merge"}
  /\ last.conflict # NoConflict
  /\ ~last.threw
  /\ \A c \in conflicts : c.id # last.id

\* C10: resolving with merge writes the merged entity with synced = false and a
\* lastModified greater than the local entity's previous one, and appends
\* exactly one pending put item for that entity.
C10_MergeWritesAndEnqueues ==
  [][ (ResolvedWith("merge") /\ ~last'.threw)
        => \E k \in DOMAIN stores'[last'.store] :
              LET e == stores'[last'.store][k]
              IN /\ ChangedKeys(stores[last'.store], stores'[last'.store]) \subseteq {k}
                 /\ e.synced = "false"
                 /\ e.lastModified > last'.conflict.local.lastModified
                 /\ \E q \in syncQueue' :
                      /\ q \notin syncQueue
                      /\ syncQueue' = syncQueue \cup {q}
                      /\ q.status = "pending"
                      /\ q.operation = "put"
                      /\ q.data.id = k ]_vars

\* the remote version listed for an id, or null
RemoteOf(id) ==
  IF \E r \in serverData : r.id = id THEN CHOOSE r \in serverData : r.id = id ELSE Null

\* a.lastModified > b.lastModified, false when either timestamp is absent
Newer(a, b) == a.lastModified # 0 /\ b.lastModified # 0 /\ a.lastModified > b.lastModified

\* C11: for every entity id of the local collection or the remote snapshot,
\* detectConflicts yields server_newer iff both versions exist and the remote
\* timestamp is greater, local_newer iff both exist and the local timestamp is
\* greater, content_conflict iff both exist, the timestamps are equal or absent and
\* the serialized contents differ, server_only iff only the remote exists,
\* local_only iff only the local exists, no entry iff both exist with equal
\* serialized content and equal timestamps; each id gets at most one entry.
C11_Classification ==
  (last.op = "detectConflicts" /\ ~last.threw)
    => \A id \in (DOMAIN stores[last.store]) \cup {r.id : r \in serverData} :
         LET localItem == Get(stores[last.store], id)
             remoteItem == RemoteOf(id)
             both == ~IsNull(localItem) /\ ~IsNull(remoteItem)
             entries == {c \in last.detected : EntityIdOf(c) = id}
             types == {c.type : c \in entries}
         IN /\ Cardinality(entries) <= 1
            /\ \A c \in entries : c.local = localItem /\ c.remote = remoteItem
            /\ ("server_newer" \in types) <=> (both /\ Newer(remoteItem, localItem))
            /\ ("local_newer" \in types) <=> (both /\ Newer(localItem, remoteItem))
            /\ ("content_conflict" \in types)
                 <=> /\ both
                     /\ \/ localItem.lastModified = remoteItem.lastModified
                        \/ localItem.lastModified = 0
                        \/ remoteItem.lastModified = 0
                     /\ Serialize(localItem) # Serialize(remoteItem)
            /\ ("server_only" \in types) <=> (IsNull(localItem) /\ ~IsNull(remoteItem))
            /\ ("local_only" \in types) <=> (~IsNull(localItem) /\ IsNull(remoteItem))
            /\ (entries = {})
                 <=> /\ both
                     /\ Serialize(localItem) = Serialize(remoteItem)
                     /\ localItem.lastModified = remoteItem.lastModified

\* C11 witness: one call reported a newer remote version for one id and a
\* local-only entity for another
C11_Witness ==
  /\ last.op = "detectConflicts"
  /\ \E c \in last.detected : c.type = "server_newer"
  /\ \E c \in last.detected : c.type = "local_only"

ConflictTypes == {"server_newer", "local_newer", "content_conflict", "server_only", "local_only"}

\* C12: detectConflicts never raises; it returns a list whose entries carry one of
\* the five types, with an entry for every id that only one side holds, whether
\* or not the versions carry lastModified.
C12_DetectIsTotal ==
  (last.op = "detectConflicts")
    => /\ ~last.threw
       /\ \A c \in last.detected : c.type \in ConflictTypes
       /\ \A id \in (DOMAIN stores[last.store]) \cup {r.id : r \in serverData} :
            (IsNull(Get(stores[last.store], id)) \/ IsNull(RemoteOf(id)))
              => \E c \in last.detected : EntityIdOf(c) = id

\* C12 witness: a call on a remote version without lastModified whose local
\* counterpart carries one, and on a remote version that has no local counterpart
C12_Witness ==
  /\ last.op = "detectConflicts"
  /\ ~last.threw
  /\ \E r \in serverData :
       /\ r.lastModified = 0
       /\ r.id \in DOMAIN stores[last.store]
       /\ stores[last.store][r.id].lastModified # 0
  /\ \E r \in serverData : r.id \notin DOMAIN stores[last.store]
  /\ last.detected # {}

\* the step ends the performSync invocation p
PassEnds(p) == pass[p].pc # "idle" /\ pass'[p].pc = "idle"

\* the step ends the invocation p with setSyncStatus('idle')
PassEndsIdle(p) == PassEnds(p) /\ pass[p].pc = "loop"

\* the step ends the invocation p with setSyncStatus('error')
PassEndsInError(p) == PassEnds(p) /\ pass[p].pc = "retryPut"

\* number of drained items the invocation has attempted to push
Attempted(ps) == IF ps.pc \in {"markPut", "retryPut"} THEN ps.idx ELSE ps.idx - 1

\* C13: every item drained at the start of a pass is attempted in that pass,
\* whichever earlier items failed.
C13_EveryItemAttempted ==
  [][ \A p \in Procs :
        PassEnds(p) => Attempted(pass[p]) = Len(pass[p].snap) ]_vars

\* C14: when the push of a pending item fails during a pass, then once the pass
\* has run to its end the item is still in syncQueue, its retries counter is one
\* greater than before, and its status is pending.
C14_FailedItemRetriedOnce ==
  [][ \A p \in Procs :
        PassEndsIdle(p)
          => \A f \in pass[p].failed :
                f.status = "pending"
                  => LET item == GetItem(syncQueue', f.id)
                     IN /\ item # NoItem
                        /\ item.retries = f.retries + 1
                        /\ item.status = "pending" ]_vars

\* C15: a pending item whose push succeeds in a pass has status completed when
\* the pass ends and is still in syncQueue, with its collection, operation,
\* payload and retries counter unchanged.
C15_PushedItemCompleted ==
  [][ \A p \in Procs :
        PassEndsIdle(p)
          => \A i \in 1..Len(pass[p].snap) :
                LET drained == pass[p].snap[i]
                IN (drained.status = "pending" /\ drained.id \in pass[p].pushed)
                     => GetItem(syncQueue', drained.id) = CompletedItem(drained) ]_vars

\* C16: whenever a pass ends in state error, the items of syncQueue and the
\* conflicts collection are as they were when the pass started.
C16_ErrorLeavesQueueAlone ==
  [][ \A p \in Procs :
        PassEndsInError(p)
          => /\ \A i \in 1..Len(pass[p].snap) :
                  GetItem(syncQueue', pass[p].snap[i].id) = pass[p].snap[i]
             /\ conflicts' = conflicts ]_vars

\* C17: when a pass returns to idle, every conflict that detectConflicts reports
\* for the local rounds against the snapshot of the server is stored as a record
\* of the conflicts collection.
C17_DetectedConflictsPersisted ==
  [][ \A p \in Procs :
        PassEndsIdle(p)
          => \A c \in DetectConflicts(stores'["rounds"], serverData') :
                \E rec \in conflicts' : rec.storeName = "rounds" /\ rec.conflict = c ]_vars

\* C18: every online event that arrives while the store is open and no pass is
\* running starts a pass that drains the queue, whether the application was
\* started online or offline.
C18_OnlineEventStartsSync ==
  [][ (/\ last'.op = "handleOnline"
       /\ dbOpen
       /\ syncStatus = "idle"
       /\ \A p \in Procs : pass[p].pc = "idle")
        => /\ syncStatus' = "syncing"
           /\ \E p \in Procs :
                pass'[p].pc = "loop" /\ pass'[p].snap = GetSyncQueue(syncQueue) ]_vars

\* every record but the one under key is the same in both stores
SameButFor(before, after, key) ==
  \A k \in ((DOMAIN before) \cup (DOMAIN after)) \ {key} : Get(before, k) = Get(after, k)

\* C19: add(c, e2) when c already holds an entity with the id of e2 fails and
\* leaves c unchanged, so that get(c, id) still returns the entity held before;
\* when no entity has that id, add inserts e2.
C19_AddRejectsDuplicate ==
  [][ (last'.op = "add" /\ last'.data.id # NoId)
        => LET c == last'.store
               e2 == last'.data
           IN IF e2.id \in DOMAIN stores[c]
              THEN /\ last'.threw
                   /\ stores' = stores
                   /\ Get(stores'[c], e2.id) = stores[c][e2.id]
              ELSE /\ ~last'.threw
                   /\ Get(stores'[c], e2.id) = e2
                   /\ SameButFor(stores[c], stores'[c], e2.id)
                   /\ \A t \in DomainStores \ {c} : stores'[t] = stores[t] ]_vars

\* C19 witness: an add was rejected and the entity held before, which differs
\* from the one passed, is still stored
C19_Witness ==
  /\ last.op = "add"
  /\ last.threw
  /\ last.data.id \in DOMAIN stores[last.store]
  /\ stores[last.store][last.data.id] # last.data

\* C20: put(c, e) inserts or replaces: afterwards get(c, e.id) = e and every other
\* entity of c is unchanged; a second put(c, e) right after the first leaves c in
\* the state the first one produced.
C20_PutIsIdempotent ==
  [][ (last'.op = "put" /\ ~last'.threw)
        => LET c == last'.store
               e == last'.data
           IN /\ Get(stores'[c], e.id) = e
              /\ SameButFor(stores[c], stores'[c], e.id)
              /\ \A t \in DomainStores \ {c} : stores'[t] = stores[t]
              /\ last'.repeated => stores' = stores ]_vars

\* C20 witness: the same put was made twice in a row on a collection that holds
\* another entity as well
C20_Witness ==
  /\ last.op = "put"
  /\ ~last.threw
  /\ last.repeated
  /\ Get(stores[last.store], last.data.id) = last.data
  /\ \E k \in DOMAIN stores[last.store] : k # last.data.id

(* ---------------------------------------------------------------------- *)
(* Backup: export, clear, import                                          *)
(* ---------------------------------------------------------------------- *)
\* the sequence exportData, clearAllData, importData of the exported file has just ended
RoundTripDone == backup.phase = "imported" /\ backup.at + 2 = calls /\ last.op = "importData"

\* C21: after exportData, clearAllData and importData of the exported file, every
\* collection holds the ids it held before the export
C21_RoundTripRestores ==
  RoundTripDone => \A s \in DomainStores : DOMAIN stores[s] = DOMAIN backup.before[s]

\* a file the validation is to refuse: not JSON, a key that is not a list, or a record
\* of a list without one of its required fields
Malformed(file) ==
  \/ ~file.wellFormed
  \/ \E k \in {"courses", "rounds", "holeScores"} : ~file[k].isList
  \/ \E e \in file.courses.items \cup file.rounds.items : e.id = NoId \/ e.par = 0
  \/ \E e \in file.holeScores.items : e.id = NoId \/ e.roundId = NoId \/ e.par = 0

\* C30: importData of a file that is not JSON, or whose courses, rounds or holeScores is
\* not a list, or with a record lacking a required field, raises an error and leaves
\* the three collections as they were
C30_InvalidFileWritesNothing ==
  [][(last'.op = "importData" /\ Malformed(last'.file)) =>
       (last'.threw /\ stores' = stores)]_vars

\* a file with a valid course and a hole score without roundId was refused while the
\* stores held a course
C30_Witness ==
  /\ last.op = "importData" /\ last.threw
  /\ last.file.wellFormed
  /\ last.file.courses.items # {}
  /\ \A e \in last.file.courses.items : e.id # NoId /\ e.par # 0
  /\ \E e \in last.file.holeScores.items : e.id # NoId /\ e.roundId = NoId
  /\ DOMAIN stores["courses"] # {}
  /\ DOMAIN stores["holeScores"] = {}

(* ---------------------------------------------------------------------- *)
(* The sync queue: enqueue, updates of an item, order                     *)
(* ---------------------------------------------------------------------- *)
\* C22: every addToSyncQueue leaves the queue with exactly one more item, whose id no
\* item had, pending with retries 0, and with every item it held unchanged
C22_EnqueueAddsOneItem ==
  [][last'.op = "addToSyncQueue" =>
       \E item \in syncQueue' :
         /\ syncQueue' = syncQueue \cup {item}
         /\ \A i \in syncQueue : i.id # item.id
         /\ item.status = "pending" /\ item.retries = 0]_vars

\* C25: every pass that has started ends, setting the status to idle or to error
C25_PassTerminates ==
  \A p \in Procs :
    (pass[p].pc # "idle") ~>
      (pass[p].pc = "idle" /\ last.op \in {"syncDone", "syncError"} /\ last.id = p
         /\ syncStatus \in {"idle", "error"})

\* a pass in which a push failed has ended with status idle
C25_Witness ==
  /\ last.op = "syncDone" /\ syncStatus = "idle"
  /\ \E i \in syncQueue : i.retries > 0
  /\ \A p \in Procs : pass[p].pc = "idle"

\* pass p writes an item back: the put of markSyncItemComplete or of retrySyncItem
WritesBack(p, pc) == pass[p].pc = pc /\ pass'[p].pc = "loop" /\ pass[p].item # NoItem

\* C26: no update of an item is lost: retrySyncItem leaves the counter one above the
\* stored one and does not turn an item back to pending that was completed after this
\* pass read it; markSyncItemComplete leaves the stored counter as it is
C26_NoLostUpdate ==
  [][\A p \in Procs :
       LET stored == GetItem(syncQueue, pass[p].item.id)
           written == GetItem(syncQueue', pass[p].item.id)
       IN /\ WritesBack(p, "retryPut") =>
               /\ written.retries = stored.retries + 1
               /\ ~(stored.status = "completed" /\ pass[p].item.status = "pending")
          /\ WritesBack(p, "markPut") => written.retries = stored.retries]_vars

\* the two items are about the same entity of the same collection
SameEntity(a, b) == a.storeName = b.storeName /\ a.data.id = b.data.id

\* C28: in the list a pass works through, two items about the same entity stand in the
\* order in which they were enqueued
C28_EnqueueOrderKept ==
  \A p \in Procs :
    \A i, j \in 1..Len(pass[p].snap) :
      (i < j /\ SameEntity(pass[p].snap[i], pass[p].snap[j]))
        => pass[p].snap[i].seq < pass[p].snap[j].seq

(* ---------------------------------------------------------------------- *)
(* mergeData, and the resolutions that write an entity                    *)
(* ---------------------------------------------------------------------- *)
\* the rule mergeRules gives for a field, "none" when it gives none
RuleFor(mergeRules, f) == IF f \in DOMAIN mergeRules THEN mergeRules[f] ELSE "none"

\* the elements of a list
Elements(list) == {list[i] : i \in 1..Len(list)}

\* C24: per field, use_remote yields the remote value, use_local the local value,
\* combine on two lists the union of their elements without duplicates, latest the
\* value of the version with the greater lastModified, and a field without a rule
\* keeps the local value
C24_MergeRules ==
  last.op = "mergeData" =>
    LET local == last.merge.local
        remote == last.merge.remote
        merged == last.merge.merged
    IN \A f \in DOMAIN local :
         LET rule == RuleFor(last.merge.mergeRules, f)
         IN /\ rule = "use_remote" => merged[f] = remote[f]
            /\ rule = "use_local" => merged[f] = local[f]
            /\ rule = "none" => merged[f] = local[f]
            /\ (rule = "combine" /\ f \in ListFields /\ local[f].isList /\ remote[f].isList) =>
                 /\ merged[f].isList
                 /\ Elements(merged[f].items) =
                      Elements(local[f].items) \cup Elements(remote[f].items)
                 /\ Len(merged[f].items) = Cardinality(Elements(merged[f].items))
            /\ rule = "latest" =>
                 /\ local.lastModified > remote.lastModified => merged[f] = local[f]
                 /\ remote.lastModified > local.lastModified => merged[f] = remote[f]

\* C23: a resolution never lowers the lastModified stored for an entity (for a stored
\* value that is not ahead of the clock of the device, and a written value that is
\* present)
C23_LastModifiedMonotonic ==
  [][last'.op \in ResolveOps =>
       \A s \in DomainStores :
         \A k \in DOMAIN stores[s] \cap DOMAIN stores'[s] :
           (/\ stores[s][k].lastModified # 0
            /\ stores[s][k].lastModified <= now
            /\ stores'[s][k].lastModified # 0)
             => stores'[s][k].lastModified >= stores[s][k].lastModified]_vars

\* the resolution names the side the conflict does not have
ChosenSideAbsent(conflict, strategy) ==
  \/ strategy = "use_remote" /\ IsNull(conflict.remote)
  \/ strategy = "use_local" /\ IsNull(conflict.local)

\* C27: a resolution with use_remote of a conflict without remote side, or with
\* use_local of a conflict without local side, fails: no store is changed, no entity
\* without id is stored, and the stored conflict records are all kept
C27_AbsentSideFails ==
  [][(/\ last'.op \in ResolveOps
      /\ last'.conflict # NoConflict
      /\ ChosenSideAbsent(last'.conflict, last'.strategy))
       => /\ last'.threw
          /\ stores' = stores
          /\ \A s \in DomainStores : NoId \notin DOMAIN stores'[s]
          /\ conflicts' = conflicts]_vars

\* a stored local_only conflict was resolved with use_remote; its record is still there
C27_Witness ==
  /\ last.op = "resolveStoredConflict"
  /\ last.strategy = "use_remote"
  /\ last.conflict # NoConflict
  /\ IsNull(last.conflict.remote)
  /\ last.threw
  /\ \E c \in conflicts : c.id = last.id /\ c.conflict = last.conflict
  /\ Get(stores[last.store], last.conflict.local.id) = last.conflict.local

\* C29: resolveStoredConflict with a strategy other than use_local, use_remote, merge
\* and manual changes neither the stores nor the conflict records, and with an id
\* that names no record it changes nothing
C29_UnknownStrategyKeepsRecord ==
  [][last'.op = "resolveStoredConflict" =>
       /\ last'.strategy \notin {"use_local", "use_remote", "merge", "manual"}
            => (stores' = stores /\ conflicts' = conflicts)
       /\ last'.conflict = NoConflict
            => (stores' = stores /\ conflicts' = conflicts /\ syncQueue' = syncQueue)]_vars

====
